---- MODULE Spec2Model ----
(***************************************************************************)
(* CannaView screenshot service: the ScreenshotService singleton           *)
(* (app/screenshot.py), the API-key guard (app/auth.py), the domain        *)
(* allow-list (app/config.py), the request model (app/models.py) and the   *)
(* POST /screenshot handler (app/main.py).                                 *)
(*                                                                         *)
(* Every coroutine is cut at its awaits: the code between two awaits runs  *)
(* atomically on the one event loop, and each await of a driver call is a  *)
(* point where another task may run.  A driver call completes either       *)
(* normally or by raising.                                                 *)
(***************************************************************************)
EXTENDS Integers, Sequences, FiniteSets, TLC

(* ---- bounds of the model ---- *)
(* Calls begun in one behaviour: interleaved, and one at a time. *)
MaxCalls == 3
MaxSeqCalls == 3

(* Two tasks of the event loop, each running one call at a time. *)
Tasks == {1, 2}

(* Python's None; "" is the empty string.  Both are falsy. *)
NoneVal == "<None>"
Falsy(x) == x \in {NoneVal, ""}

(* ---- app/config.py ---- *)
API_KEY == "change-me-in-production"

(* Strings that take part in substring tests are sequences of symbols. *)
ALLOWED_DOMAINS == << <<"easydis.io">>, <<"www.", "easydis.io">> >>

(* s in u for Python strings: s occurs as a contiguous run of u. *)
IsSubstring(s, u) ==
  \E i \in 1..(Len(u) + 1) :
     /\ i + Len(s) - 1 <= Len(u)
     /\ SubSeq(u, i, i + Len(s) - 1) = s

RECURSIVE DomainLoop(_, _)
DomainLoop(i, url) ==
  IF i > Len(ALLOWED_DOMAINS) THEN FALSE
  ELSE IF IsSubstring(ALLOWED_DOMAINS[i], url) THEN TRUE
  ELSE DomainLoop(i + 1, url)

is_domain_allowed(url) == DomainLoop(1, url)

(* An HttpUrl: scheme, host, path.  str(request.url) joins them. *)
UrlStr(u) == <<"https://">> \o u.host \o <<"/">> \o u.path
UrlHost(u) == u.host

ScreenUrl == [host |-> <<"www.", "easydis.io">>, path |-> <<"screen">>]
BareUrl   == [host |-> <<"easydis.io">>, path |-> <<>>]
EvilUrl   == [host |-> <<"evil.com">>, path |-> <<>>]
DecoyUrl  == [host |-> <<"evil.com">>, path |-> <<"easydis.io">>]

(* ---- app/models.py: ScreenshotRequest field bounds ---- *)
MIN_WIDTH == 800
MAX_WIDTH == 3840
MIN_HEIGHT == 600
MAX_HEIGHT == 2160
MIN_WAIT == 0
MAX_WAIT == 60000

InBounds(r) ==
  /\ r.width >= MIN_WIDTH /\ r.width <= MAX_WIDTH
  /\ r.height >= MIN_HEIGHT /\ r.height <= MAX_HEIGHT
  /\ r.wait_time >= MIN_WAIT /\ r.wait_time <= MAX_WAIT

(* Faulty variant: the bound on wait_time is missing. *)
ValidRequestNoWait(r) ==
  /\ r.width >= MIN_WIDTH /\ r.width <= MAX_WIDTH
  /\ r.height >= MIN_HEIGHT /\ r.height <= MAX_HEIGHT

(* Field(ge=..., le=...) on width, height and wait_time. *)
ValidRequest(r) == InBounds(r)

(* ---- app/auth.py ---- *)
(* Faulty variant: any non-empty key is accepted. *)
verify_api_key_open(api_key) ==
  IF Falsy(api_key) THEN [status |-> 401, detail |-> "Missing API Key"]
  ELSE [status |-> 200, value |-> api_key]

(* Raises HTTPException(401) or (403), or returns the key. *)
verify_api_key(api_key) ==
  IF Falsy(api_key) THEN [status |-> 401, detail |-> "Missing API Key"]
  ELSE IF api_key # API_KEY THEN [status |-> 403, detail |-> "Invalid API Key"]
  ELSE [status |-> 200, value |-> api_key]

(* ---- base64.b64encode(...).decode("utf-8") ---- *)
B64Alphabet == <<
       "A", "B", "C", "D", "E", "F", "G", "H", "I", "J", "K", "L", "M", "N", "O", "P",
       "Q", "R", "S", "T", "U", "V", "W", "X", "Y", "Z", "a", "b", "c", "d", "e", "f",
       "g", "h", "i", "j", "k", "l", "m", "n", "o", "p", "q", "r", "s", "t", "u", "v",
       "w", "x", "y", "z", "0", "1", "2", "3", "4", "5", "6", "7", "8", "9", "+", "/" >>

B64Char(n) == B64Alphabet[n + 1]

RECURSIVE b64encode(_)
b64encode(bs) ==
  IF Len(bs) = 0 THEN <<>>
  ELSE IF Len(bs) = 1 THEN
    << B64Char(bs[1] \div 4), B64Char((bs[1] % 4) * 16), "=", "=" >>
  ELSE IF Len(bs) = 2 THEN
    << B64Char(bs[1] \div 4),
       B64Char((bs[1] % 4) * 16 + bs[2] \div 16),
       B64Char((bs[2] % 16) * 4), "=" >>
  ELSE
    << B64Char(bs[1] \div 4),
       B64Char((bs[1] % 4) * 16 + bs[2] \div 16),
       B64Char((bs[2] % 16) * 4 + bs[3] \div 64),
       B64Char(bs[3] % 64) >> \o b64encode(SubSeq(bs, 4, Len(bs)))


(* ---- page.screenshot(type="png", full_page=...) ---- *)
(* The document of a URL is taller than the viewport when it has a path. *)
DocHeight(url, height) == height + 256 * Len(url.path)

(* PNG signature, then the rendered size and the document shown. *)
Render(pg, full_page) ==
  LET h == IF full_page THEN DocHeight(pg.url, pg.height) ELSE pg.height
  IN  << 137, 80, 78, 71,
         pg.width \div 256, pg.width % 256, (h \div 256) % 256, h % 256,
         Len(UrlStr(pg.url)) >>

(* ---- state ---- *)
VARIABLES
  playwright,   \* self.playwright: 0 is None, else an index into drivers
  browser,      \* self.browser: 0 is None, else an index into browsers
  drivers,      \* every driver process started: "running" | "stopped"
  browsers,     \* every browser launched: [status, driver]
  pages,        \* every page opened: [status, browser, opener, url, ...]
  tasks,        \* per task: position, request, locals of the running call
  nCalls        \* calls begun so far

vars == <<playwright, browser, drivers, browsers, pages, tasks, nCalls>>
session == <<playwright, browser, drivers, browsers, pages>>

NoReq == [none |-> TRUE]
NoResult == [none |-> TRUE]
NoResponse == [none |-> TRUE]
BlankUrl == [host |-> <<>>, path |-> <<>>]

(* Number of elements a selector can match on a page. *)
DomCounts == {0, 2}

IdleTask ==
  [pc |-> "idle", op |-> "none", req |-> NoReq, drv |-> 0, br |-> 0,
   page |-> 0, product_count |-> 0, elapsed |-> 0, result |-> NoResult,
   response |-> NoResponse, invoked |-> FALSE, selTimedOut |-> FALSE,
   failed |-> "none", quiet |-> FALSE]

Init ==
  /\ playwright = 0
  /\ browser = 0
  /\ drivers = <<>>
  /\ browsers = <<>>
  /\ pages = <<>>
  /\ tasks = [t \in Tasks |-> IdleTask]
  /\ nCalls = 0

(* ---- the driver's objects ---- *)
DriverRunning(d) == d # 0 /\ drivers[d] = "running"
BrowserOpen(b) == b # 0 /\ browsers[b].status = "open"
PageOpen(p) == p # 0 /\ pages[p].status = "open"

(* browser.close(): the browser and every page of it are closed. *)
CloseBrowser(bs, b) ==
  [i \in DOMAIN bs |-> IF i = b THEN [bs[i] EXCEPT !.status = "closed"] ELSE bs[i]]

(* playwright.stop(): the driver process exits. *)
(* Faulty variant: the driver is left running. *)
StopDriverNot(ds, d) == ds

StopDriver(ds, d) == [i \in DOMAIN ds |-> IF i = d THEN "stopped" ELSE ds[i]]

(* A driver that exits takes the browsers it launched with it. *)
BrowsersAfterStop(bs, d) ==
  [i \in DOMAIN bs |->
     IF bs[i].driver = d THEN [bs[i] EXCEPT !.status = "closed"] ELSE bs[i]]

(* A closed page holds nothing any more. *)
ClosedPage ==
  [status |-> "closed", browser |-> 0, opener |-> 0, url |-> BlankUrl,
   width |-> 0, height |-> 0, matches |-> 0]

(* Pages live only while their browser is open. *)
PagesOn(pgs, bs) ==
  [i \in DOMAIN pgs |->
     IF pgs[i].status = "open" /\ bs[pgs[i].browser].status = "closed"
     THEN ClosedPage ELSE pgs[i]]

(* page.close(); on a page that is already closed it changes nothing. *)
(* Faulty variants: the page is left open; every page is closed. *)
ClosePageLeak(pgs, p) == pgs

ClosePageAll(pgs, p) == [i \in DOMAIN pgs |-> ClosedPage]

ClosePage(pgs, p) == [i \in DOMAIN pgs |-> IF i = p THEN ClosedPage ELSE pgs[i]]

(* ---- capture_screenshot: results and control flow ---- *)
Tick(tr) == [tr EXCEPT !.elapsed = @ + 1]

FailureResult(tr, e) ==
  [success |-> FALSE, error |-> e,
   metadata |-> [capture_time_ms |-> tr.elapsed, url |-> UrlStr(tr.req.url)]]

SuccessResult(tr, bytes) ==
  [success |-> TRUE, image_base64 |-> b64encode(bytes),
   metadata |-> [capture_time_ms |-> tr.elapsed,
                 image_size_bytes |-> Len(bytes),
                 url |-> UrlStr(tr.req.url),
                 dimensions |-> [width |-> tr.req.width, height |-> tr.req.height],
                 product_count |-> IF ~Falsy(tr.req.wait_for_selector)
                                   THEN tr.product_count ELSE NoneVal]]

(* take_screenshot once capture_screenshot has returned: 500 on a      *)
(* failure result, the response model on success.  The call's locals   *)
(* are gone.                                                           *)
Respond(tr) ==
  [tr EXCEPT !.pc = "responded", !.drv = 0, !.br = 0, !.page = 0, !.product_count = 0,
     !.response =
       IF ~tr.result.success
       THEN [status |-> 500, detail |-> [msg |-> tr.result.error, allowed |-> <<>>]]
       ELSE [status |-> 200,
             body |-> [success |-> TRUE, image_base64 |-> tr.result.image_base64,
                       metadata |-> tr.result.metadata, error |-> NoneVal]]]

(* finally: if page: await page.close().  With no page there is nothing *)
(* to await and the result is returned at once.                         *)
Finally(tr) == IF tr.page # 0 THEN [tr EXCEPT !.pc = "finally"] ELSE Respond(tr)

(* except Exception as e: the failure result, then the finally block. *)
(* Faulty variant: a navigation error is raised again. *)
ExceptHandlerReraise(tr, e) ==
  IF e = "goto" THEN [tr EXCEPT !.pc = "raised"]
  ELSE Finally([tr EXCEPT !.result = FailureResult(tr, e)])

ExceptHandler(tr, e) == Finally([tr EXCEPT !.result = FailureResult(tr, e)])

(* A driver call of the try block raised e. *)
Fail(tr, e) == ExceptHandler([tr EXCEPT !.failed = e], e)

(* if not self.browser: raise ...; else the new_page call is issued. *)
AfterInitialize(tr, b) ==
  IF b = 0 THEN Fail(tr, "Browser not initialized")
  ELSE [tr EXCEPT !.pc = "cap_newpage", !.br = b]

(* product_count = 0; if wait_for_selector: evaluate; then screenshot. *)
AfterWait(tr) ==
  IF ~Falsy(tr.req.wait_for_selector)
  THEN [tr EXCEPT !.pc = "cap_eval", !.product_count = 0]
  ELSE [tr EXCEPT !.pc = "cap_shot", !.product_count = 0]

(* if wait_time > 0: wait_for_timeout *)
AfterSelector(tr) ==
  IF tr.req.wait_time > 0 THEN [tr EXCEPT !.pc = "cap_wait"] ELSE AfterWait(tr)

(* if wait_for_selector: wait_for_selector *)
AfterGoto(tr) ==
  IF ~Falsy(tr.req.wait_for_selector)
  THEN [tr EXCEPT !.pc = "cap_waitsel"] ELSE AfterSelector(tr)

(* except Exception around wait_for_selector: log a warning, go on. *)
(* Faulty variant: the selector timeout is not caught. *)
SelectorMissFatal(tr) == Fail(tr, "wait_for_selector")

SelectorMiss(tr) == AfterSelector(tr)

(* The session is not running: never started, or already cleaned up. *)
SessionDown ==
  /\ browser = 0 \/ browsers[browser].status = "closed"
  /\ playwright = 0 \/ drivers[playwright] = "stopped"

Quiescent == \A u \in Tasks : tasks[u].pc = "idle"

(* A call that begins takes the first free task; at most max calls      *)
(* begin, and with alone set only while no other call is running.       *)
CanStart(t, max, alone) ==
  /\ tasks[t].pc = "idle"
  /\ \A u \in Tasks : u < t => tasks[u].pc # "idle"
  /\ nCalls < max
  /\ alone => Quiescent

(* ---- ScreenshotService.initialize ---- *)
(* A direct call (the lifespan's startup call): if not self.playwright, *)
(* the driver start is awaited; otherwise the call returns at once.     *)
CallInitialize(t, max, alone) ==
  /\ CanStart(t, max, alone)
  /\ nCalls' = nCalls + 1
  /\ tasks' = [tasks EXCEPT ![t] =
       IF playwright # 0 THEN IdleTask
       ELSE [IdleTask EXCEPT !.pc = "init_start", !.op = "initialize"]]
  /\ UNCHANGED session

(* initialize() raised: into the except block of capture_screenshot, or *)
(* out to the caller of a direct call.                                  *)
InitializeRaised(tr, e) ==
  IF tr.op = "request" THEN Fail(tr, e) ELSE [tr EXCEPT !.pc = "raised"]

(* async_playwright().start() is over: self.playwright is assigned and  *)
(* chromium.launch() is called on it.                                   *)
StartDone(t) ==
  /\ tasks[t].pc = "init_start"
  /\ \E ok \in BOOLEAN :
       IF ok
       THEN /\ drivers' = Append(drivers, "running")
            /\ playwright' = Len(drivers) + 1
            /\ tasks' = [tasks EXCEPT ![t] =
                 [Tick(tasks[t]) EXCEPT !.pc = "init_launch", !.drv = Len(drivers) + 1]]
            /\ UNCHANGED <<browser, browsers, pages>>
       ELSE /\ tasks' = [tasks EXCEPT ![t] = InitializeRaised(Tick(tasks[t]), "start")]
            /\ UNCHANGED session
  /\ UNCHANGED nCalls

(* chromium.launch() is over: self.browser is assigned, initialize()    *)
(* returns, and capture_screenshot goes on to new_page.                 *)
LaunchDone(t) ==
  /\ tasks[t].pc = "init_launch"
  /\ \E ok \in BOOLEAN :
       /\ ok => DriverRunning(tasks[t].drv)
       /\ IF ok
          THEN /\ browsers' = Append(browsers, [status |-> "open", driver |-> tasks[t].drv])
               /\ browser' = Len(browsers) + 1
               /\ tasks' = [tasks EXCEPT ![t] =
                    IF tasks[t].op = "request"
                    THEN AfterInitialize(Tick(tasks[t]), Len(browsers) + 1)
                    ELSE IdleTask]
               /\ UNCHANGED <<playwright, drivers, pages>>
          ELSE /\ tasks' = [tasks EXCEPT ![t] = InitializeRaised(Tick(tasks[t]), "launch")]
               /\ UNCHANGED session
  /\ UNCHANGED nCalls

(* ---- ScreenshotService.cleanup ---- *)
CallCleanup(t, max, alone) ==
  /\ CanStart(t, max, alone)
  /\ nCalls' = nCalls + 1
  /\ tasks' = [tasks EXCEPT ![t] =
       IF browser # 0
       THEN [IdleTask EXCEPT !.pc = "cl_close", !.op = "cleanup", !.br = browser,
                             !.quiet = SessionDown]
       ELSE IF playwright # 0
       THEN [IdleTask EXCEPT !.pc = "cl_stop", !.op = "cleanup", !.drv = playwright,
                             !.quiet = SessionDown]
       ELSE IdleTask]
  /\ UNCHANGED session

(* self.browser.close() is over; if self.playwright: stop() is called. *)
BrowserCloseDone(t) ==
  /\ tasks[t].pc = "cl_close"
  /\ browsers' = CloseBrowser(browsers, tasks[t].br)
  /\ pages' = PagesOn(pages, browsers')
  /\ tasks' = [tasks EXCEPT ![t] =
       IF playwright # 0
       THEN [tasks[t] EXCEPT !.pc = "cl_stop", !.drv = playwright,
                             !.quiet = @ /\ SessionDown]
       ELSE IdleTask]
  /\ UNCHANGED <<playwright, browser, drivers, nCalls>>

(* self.playwright.stop() is over; cleanup() returns. *)
DriverStopDone(t) ==
  /\ tasks[t].pc = "cl_stop"
  /\ drivers' = StopDriver(drivers, tasks[t].drv)
  /\ browsers' = BrowsersAfterStop(browsers, tasks[t].drv)
  /\ pages' = PagesOn(pages, browsers')
  /\ tasks' = [tasks EXCEPT ![t] = IdleTask]
  /\ UNCHANGED <<playwright, browser, nCalls>>

(* ---- POST /screenshot: take_screenshot ---- *)
Rejected(r, code, msg, allowed) ==
  [IdleTask EXCEPT !.pc = "responded", !.op = "request", !.req = r,
     !.response = [status |-> code, detail |-> [msg |-> msg, allowed |-> allowed]]]

(* capture_screenshot up to its first await: page = None,              *)
(* await self.initialize(), the browser check, the new_page call.      *)
CaptureEnter(tr) ==
  IF playwright = 0
  THEN [tr EXCEPT !.pc = "init_start", !.invoked = TRUE]
  ELSE AfterInitialize([tr EXCEPT !.invoked = TRUE], browser)

(* The guard, the body validation and the allow-list come before the    *)
(* capture; a request that passes them calls capture_screenshot.        *)
Handle(r) ==
  IF verify_api_key(r.api_key).status # 200
  THEN Rejected(r, verify_api_key(r.api_key).status,
                verify_api_key(r.api_key).detail, <<>>)
  ELSE IF ~ValidRequest(r)
  THEN Rejected(r, 422, "validation error", <<>>)
  ELSE IF ~is_domain_allowed(UrlStr(r.url))
  THEN Rejected(r, 403, "Domain not allowed", ALLOWED_DOMAINS)
  ELSE CaptureEnter([IdleTask EXCEPT !.op = "request", !.req = r])

Request(t, R, max, alone) ==
  /\ CanStart(t, max, alone)
  /\ nCalls' = nCalls + 1
  /\ \E r \in R : tasks' = [tasks EXCEPT ![t] = Handle(r)]
  /\ UNCHANGED session

(* ---- ScreenshotService.capture_screenshot, await by await ---- *)
(* browser.new_page(viewport=...) is over; page.goto is called. *)
NewPageDone(t) ==
  /\ tasks[t].pc = "cap_newpage"
  /\ \E ok \in BOOLEAN :
       /\ ok => BrowserOpen(tasks[t].br)
       /\ IF ok
          THEN /\ pages' = Append(pages,
                    [status |-> "open", browser |-> tasks[t].br, opener |-> t,
                     url |-> BlankUrl, width |-> tasks[t].req.width,
                     height |-> tasks[t].req.height, matches |-> 0])
               /\ tasks' = [tasks EXCEPT ![t] =
                    [Tick(tasks[t]) EXCEPT !.pc = "cap_goto", !.page = Len(pages) + 1]]
          ELSE /\ tasks' = [tasks EXCEPT ![t] = Fail(Tick(tasks[t]), "new_page")]
               /\ UNCHANGED pages
  /\ UNCHANGED <<playwright, browser, drivers, browsers, nCalls>>

(* page.goto(url, wait_until="domcontentloaded", timeout=60000) is over. *)
GotoDone(t) ==
  /\ tasks[t].pc = "cap_goto"
  /\ \E ok \in BOOLEAN :
       /\ ok => PageOpen(tasks[t].page)
       /\ IF ok
          THEN /\ \E m \in DomCounts :
                    pages' = [pages EXCEPT ![tasks[t].page].url = tasks[t].req.url,
                                           ![tasks[t].page].matches = m]
               /\ tasks' = [tasks EXCEPT ![t] = AfterGoto(Tick(tasks[t]))]
          ELSE /\ tasks' = [tasks EXCEPT ![t] = Fail(Tick(tasks[t]), "goto")]
               /\ UNCHANGED pages
  /\ UNCHANGED <<playwright, browser, drivers, browsers, nCalls>>

(* page.wait_for_selector(selector, timeout=30000) is over: the element *)
(* was found, or the wait raised (timeout, page gone) and was logged.   *)
WaitSelectorDone(t) ==
  /\ tasks[t].pc = "cap_waitsel"
  /\ \E found \in BOOLEAN :
       /\ found => PageOpen(tasks[t].page)
       /\ IF found
          THEN /\ \E m \in DomCounts \ {0} :
                    pages' = [pages EXCEPT ![tasks[t].page].matches =
                                IF @ = 0 THEN m ELSE @]
               /\ tasks' = [tasks EXCEPT ![t] = AfterSelector(Tick(tasks[t]))]
          ELSE /\ tasks' = [tasks EXCEPT ![t] =
                    SelectorMiss([Tick(tasks[t]) EXCEPT !.selTimedOut = TRUE])]
               /\ UNCHANGED pages
  /\ UNCHANGED <<playwright, browser, drivers, browsers, nCalls>>

(* page.wait_for_timeout(wait_time) is over; the page's content may have *)
(* changed while waiting.                                                *)
WaitTimeoutDone(t) ==
  /\ tasks[t].pc = "cap_wait"
  /\ \E ok \in BOOLEAN :
       /\ ok => PageOpen(tasks[t].page)
       /\ IF ok
          THEN /\ \E m \in DomCounts :
                    pages' = [pages EXCEPT ![tasks[t].page].matches = m]
               /\ tasks' = [tasks EXCEPT ![t] = AfterWait(Tick(tasks[t]))]
          ELSE /\ tasks' = [tasks EXCEPT ![t] = Fail(Tick(tasks[t]), "wait_for_timeout")]
               /\ UNCHANGED pages
  /\ UNCHANGED <<playwright, browser, drivers, browsers, nCalls>>

(* page.evaluate('document.querySelectorAll("...").length') is over. *)
EvaluateDone(t) ==
  /\ tasks[t].pc = "cap_eval"
  /\ \E ok \in BOOLEAN :
       /\ ok => PageOpen(tasks[t].page)
       /\ tasks' = [tasks EXCEPT ![t] =
            IF ok
            THEN [Tick(tasks[t]) EXCEPT !.pc = "cap_shot",
                    !.product_count = pages[tasks[t].page].matches]
            ELSE Fail(Tick(tasks[t]), "evaluate")]
  /\ UNCHANGED <<session, nCalls>>

(* page.screenshot(...) is over; the bytes are encoded and the success  *)
(* result is built.                                                     *)
ScreenshotDone(t) ==
  /\ tasks[t].pc = "cap_shot"
  /\ \E out \in {"ok", "screenshot", "b64encode"} :
       /\ out = "ok" => PageOpen(tasks[t].page)
       /\ tasks' = [tasks EXCEPT ![t] =
            IF out = "ok"
            THEN Finally([Tick(tasks[t]) EXCEPT !.result =
                    SuccessResult(Tick(tasks[t]),
                      Render(pages[tasks[t].page], tasks[t].req.full_page))])
            ELSE Fail(Tick(tasks[t]), out)]
  /\ UNCHANGED <<session, nCalls>>

(* page.close() of the finally block is over; the result is returned. *)
FinallyClose(t) ==
  /\ tasks[t].pc = "finally"
  /\ pages' = ClosePage(pages, tasks[t].page)
  /\ tasks' = [tasks EXCEPT ![t] = Respond(tasks[t])]
  /\ UNCHANGED <<playwright, browser, drivers, browsers, nCalls>>

(* The response is sent, or the exception has reached the caller. *)
Finish(t) ==
  /\ tasks[t].pc \in {"responded", "raised"}
  /\ tasks' = [tasks EXCEPT ![t] = IdleTask]
  /\ UNCHANGED <<session, nCalls>>

(* ---- requests ---- *)
Requests ==
  [api_key : {API_KEY, "wrong"}, url : {ScreenUrl}, width : {800}, height : {600},
   wait_time : {10000}, wait_for_selector : {".card"}, full_page : {FALSE}]
  \cup
  [api_key : {API_KEY}, url : {BareUrl}, width : {3840}, height : {2160},
   wait_time : {0}, wait_for_selector : {NoneVal}, full_page : {TRUE}]

HttpRequests ==
  [api_key : {NoneVal, "", API_KEY, "wrong"}, url : {ScreenUrl, EvilUrl, DecoyUrl},
   width : {799, 800, 3840, 3841}, height : {599, 600, 2160, 2161},
   wait_time : {-1, 0, 60000, 60001},
   wait_for_selector : {NoneVal, "", ".card"}, full_page : BOOLEAN]

Step(t) ==
  \/ StartDone(t)
  \/ LaunchDone(t)
  \/ NewPageDone(t)
  \/ GotoDone(t)
  \/ WaitSelectorDone(t)
  \/ WaitTimeoutDone(t)
  \/ EvaluateDone(t)
  \/ ScreenshotDone(t)
  \/ FinallyClose(t)
  \/ Finish(t)
  \/ BrowserCloseDone(t)
  \/ DriverStopDone(t)

(* Calls of any task, interleaved at the awaits. *)
Next ==
  \E t \in Tasks :
    \/ CallInitialize(t, MaxCalls, FALSE)
    \/ CallCleanup(t, MaxCalls, FALSE)
    \/ Request(t, Requests, MaxCalls, FALSE)
    \/ Step(t)

Spec == Init /\ [][Next]_vars

(* One call at a time, over the whole range of request fields. *)
NextHttp ==
  \E t \in Tasks :
    \/ CallInitialize(t, MaxSeqCalls, TRUE)
    \/ CallCleanup(t, MaxSeqCalls, TRUE)
    \/ Request(t, HttpRequests, MaxSeqCalls, TRUE)
    \/ Step(t)

SpecHttp == Init /\ [][NextHttp]_vars

(* ======================= properties ======================= *)
HoldingPcs == {"cap_goto", "cap_waitsel", "cap_wait", "cap_eval", "cap_shot", "finally"}
OpenPages == {p \in DOMAIN pages : pages[p].status = "open"}

(* C1: every open page belongs to a capture_screenshot call that is    *)
(* still running and holds it; once a call has returned, with success   *)
(* or failure, no page it opened is open, so the number of open pages   *)
(* is the number of calls still holding one.                            *)
PagesReleased ==
  /\ \A p \in OpenPages :
       \E t \in Tasks : tasks[t].page = p /\ tasks[t].pc \in HoldingPcs
  /\ Cardinality(OpenPages) <= Cardinality({t \in Tasks : tasks[t].pc \in HoldingPcs})
  /\ (\A t \in Tasks : tasks[t].pc \notin HoldingPcs) => OpenPages = {}

PagesReleasedWitness ==
  /\ Len(pages) >= 1
  /\ OpenPages = {}
  /\ \E t \in Tasks : tasks[t].pc = "responded" /\ tasks[t].failed = "goto"

(* C2: a failure of any step of the try block (initialize, new_page,    *)
(* goto, the fixed wait, the count, the screenshot, the encoding) gives *)
(* the failure result: success false, the error, capture_time_ms and    *)
(* url, no image_base64; the handler answers 500; capture_screenshot    *)
(* never lets the exception out.                                        *)
FailuresBecomeResults ==
  \A t \in Tasks :
    tasks[t].op = "request" =>
      /\ tasks[t].pc # "raised"
      /\ (tasks[t].failed # "none" /\ tasks[t].pc \in {"finally", "responded"}) =>
           /\ DOMAIN tasks[t].result = {"success", "error", "metadata"}
           /\ tasks[t].result.success = FALSE
           /\ tasks[t].result.error = tasks[t].failed
           /\ tasks[t].result.metadata =
                [capture_time_ms |-> tasks[t].elapsed, url |-> UrlStr(tasks[t].req.url)]
      /\ (tasks[t].failed # "none" /\ tasks[t].pc = "responded") =>
           /\ tasks[t].response.status = 500
           /\ tasks[t].response.detail.msg = tasks[t].failed
      /\ (tasks[t].invoked /\ tasks[t].pc \in {"finally", "responded"}) =>
           (tasks[t].result.success <=> tasks[t].failed = "none")

FailuresBecomeResultsWitness ==
  \E t \in Tasks :
    /\ tasks[t].pc = "responded"
    /\ tasks[t].failed = "evaluate"
    /\ tasks[t].response.status = 500
    /\ tasks[t].elapsed > 0

(* C3: the driver is started and the browser launched at most once. *)
AtMostOneLaunch == Len(drivers) <= 1 /\ Len(browsers) <= 1

(* C4, as claimed: 401 when the header is absent, 403 when it is        *)
(* present and differs from the secret, and no capture in either case.  *)
GuardAsClaimed ==
  \A t \in Tasks :
    (tasks[t].op = "request" /\ tasks[t].pc = "responded") =>
      /\ tasks[t].req.api_key = NoneVal =>
           tasks[t].response.status = 401 /\ ~tasks[t].invoked
      /\ (tasks[t].req.api_key # NoneVal /\ tasks[t].req.api_key # API_KEY) =>
           tasks[t].response.status = 403 /\ ~tasks[t].invoked

(* C4, amended: 401 when the header is absent or empty, 403 when it is  *)
(* non-empty and differs from the secret, no capture in either case;    *)
(* the secret itself is returned unchanged and the guard rejects        *)
(* nothing.                                                             *)
GuardRejects ==
  \A t \in Tasks :
    tasks[t].op = "request" =>
      /\ tasks[t].req.api_key \in {NoneVal, ""} =>
           /\ tasks[t].pc = "responded"
           /\ tasks[t].response.status = 401
           /\ ~tasks[t].invoked
      /\ (tasks[t].req.api_key \notin {NoneVal, ""} /\ tasks[t].req.api_key # API_KEY) =>
           /\ tasks[t].pc = "responded"
           /\ tasks[t].response.status = 403
           /\ tasks[t].response.detail.msg = "Invalid API Key"
           /\ ~tasks[t].invoked
      /\ tasks[t].req.api_key = API_KEY =>
           /\ verify_api_key(tasks[t].req.api_key).status = 200
           /\ verify_api_key(tasks[t].req.api_key).value = tasks[t].req.api_key
           /\ tasks[t].pc = "responded" =>
                /\ tasks[t].response.status # 401
                /\ tasks[t].response.status = 403 =>
                     tasks[t].response.detail.msg = "Domain not allowed"

GuardRejectsWitness ==
  \E t \in Tasks :
    /\ tasks[t].pc = "responded"
    /\ tasks[t].req.api_key = ""
    /\ tasks[t].response.status = 401

HostAllowed(u) ==
  \E i \in DOMAIN ALLOWED_DOMAINS : IsSubstring(ALLOWED_DOMAINS[i], UrlHost(u))

FieldsInBounds(r) ==
  /\ r.width \in 800..3840
  /\ r.height \in 600..2160
  /\ r.wait_time \in 0..60000

(* C5: with the valid key and fields in bounds, a URL whose host        *)
(* contains no allowed domain is answered 403 with the allow-list and   *)
(* is never captured.                                                   *)
DisallowedHostRejected ==
  \A t \in Tasks :
    ( /\ tasks[t].op = "request"
      /\ tasks[t].req.api_key = API_KEY
      /\ FieldsInBounds(tasks[t].req)
      /\ ~HostAllowed(tasks[t].req.url) ) =>
        /\ ~tasks[t].invoked
        /\ tasks[t].pc = "responded"
        /\ tasks[t].response.status = 403
        /\ tasks[t].response.detail.allowed = ALLOWED_DOMAINS

(* C6: a request with width, height or wait_time out of bounds is       *)
(* answered with a client error and never enters capture_screenshot:    *)
(* no initialize, no page, no navigation for it.                        *)
OutOfBoundsRejected ==
  \A t \in Tasks :
    (tasks[t].op = "request" /\ ~FieldsInBounds(tasks[t].req)) =>
      /\ ~tasks[t].invoked
      /\ tasks[t].pc = "responded"
      /\ tasks[t].response.status \in {401, 403, 422}
      /\ tasks[t].result = NoResult
      /\ \A p \in OpenPages : pages[p].opener # t

OutOfBoundsRejectedWitness ==
  \E t \in Tasks :
    /\ tasks[t].pc = "responded"
    /\ tasks[t].req.api_key = API_KEY
    /\ tasks[t].req.wait_time = 60001
    /\ tasks[t].req.width = 800
    /\ tasks[t].req.height = 600
    /\ tasks[t].response.status = 422

(* C7: after a selector wait that timed out the call goes on to the     *)
(* fixed wait, the count and the screenshot; the timeout is never the   *)
(* failure; if nothing else fails the result is a success whose         *)
(* product_count is the number of matches on the page, zero when there  *)
(* are none.                                                            *)
SelectorMissNonFatal ==
  \A t \in Tasks :
    tasks[t].selTimedOut =>
      /\ tasks[t].failed # "wait_for_selector"
      /\ tasks[t].pc \in {"cap_wait", "cap_eval", "cap_shot", "finally", "responded"}
      /\ tasks[t].pc = "cap_wait" => tasks[t].req.wait_time > 0
      /\ (tasks[t].pc \in {"finally", "responded"} /\ tasks[t].failed = "none") =>
           /\ tasks[t].result.success = TRUE
           /\ tasks[t].result.metadata.product_count \in Nat
      /\ (tasks[t].pc = "finally" /\ tasks[t].failed = "none"
            /\ PageOpen(tasks[t].page)) =>
           tasks[t].result.metadata.product_count = pages[tasks[t].page].matches
      /\ (tasks[t].pc = "responded" /\ tasks[t].failed = "none") =>
           tasks[t].response.status = 200

SelectorMissNonFatalWitness ==
  \E t \in Tasks :
    /\ tasks[t].pc = "finally"
    /\ tasks[t].selTimedOut
    /\ tasks[t].failed = "none"
    /\ PageOpen(tasks[t].page)
    /\ pages[tasks[t].page].matches = 0
    /\ tasks[t].result.success
    /\ tasks[t].result.metadata.product_count = 0

CleanupStep(t) ==
  /\ tasks[t].pc \in {"cl_close", "cl_stop"}
  /\ tasks'[t] # tasks[t]

(* C8: cleanup() closes the browser it has taken from self.browser and  *)
(* stops the driver it has taken from self.playwright; a cleanup() call *)
(* that finds the session not running (never started, or already        *)
(* cleaned up) at each of its steps closes and stops nothing and leaves *)
(* self.browser, self.playwright, the browsers, drivers and pages as    *)
(* they were.                                                           *)
CleanupIdempotent ==
  [][\A t \in Tasks :
       /\ (CleanupStep(t) /\ tasks[t].pc = "cl_close") =>
            browsers'[tasks[t].br].status = "closed"
       /\ (CleanupStep(t) /\ tasks[t].pc = "cl_stop") =>
            drivers'[tasks[t].drv] = "stopped"
       /\ (CleanupStep(t) /\ tasks[t].quiet /\ SessionDown) =>
            UNCHANGED session
       /\ (tasks[t].pc = "idle" /\ tasks'[t].op = "cleanup") => UNCHANGED session
    ]_vars

CleanupIdempotentWitness ==
  \E t \in Tasks :
    /\ tasks[t].pc = "cl_stop"
    /\ tasks[t].quiet
    /\ SessionDown
    /\ browser # 0
    /\ playwright # 0

OwnImage(r) ==
  b64encode(Render([url |-> r.url, width |-> r.width, height |-> r.height],
                   r.full_page))

(* C9: concurrent captures each hold a page of their own, opened by     *)
(* themselves, which stays open until their own finally block unless    *)
(* its browser goes away; the page shows the call's own URL at the      *)
(* call's own viewport, and a success result echoes the call's own URL  *)
(* and dimensions, carries the rendering of its own URL, and counts the *)
(* matches of its own page.                                             *)
CapturesIsolated ==
  /\ \A t, u \in Tasks :
       (t # u /\ tasks[t].page # 0 /\ tasks[u].page # 0) =>
          tasks[t].page # tasks[u].page
  /\ \A t \in Tasks :
       /\ (tasks[t].pc \in HoldingPcs /\ BrowserOpen(tasks[t].br)) =>
            /\ PageOpen(tasks[t].page)
            /\ pages[tasks[t].page].opener = t
            /\ pages[tasks[t].page].browser = tasks[t].br
            /\ pages[tasks[t].page].width = tasks[t].req.width
            /\ pages[tasks[t].page].height = tasks[t].req.height
       /\ (tasks[t].pc \in (HoldingPcs \ {"cap_goto"}) /\ tasks[t].failed # "goto"
             /\ PageOpen(tasks[t].page)) =>
            pages[tasks[t].page].url = tasks[t].req.url
       /\ (tasks[t].pc \in {"finally", "responded"} /\ tasks[t].invoked
             /\ tasks[t].result.success) =>
            /\ tasks[t].result.metadata.url = UrlStr(tasks[t].req.url)
            /\ tasks[t].result.metadata.dimensions =
                 [width |-> tasks[t].req.width, height |-> tasks[t].req.height]
            /\ tasks[t].result.image_base64 = OwnImage(tasks[t].req)
            /\ tasks[t].result.metadata.image_size_bytes = 9
       /\ (tasks[t].pc = "finally" /\ tasks[t].result.success
             /\ ~Falsy(tasks[t].req.wait_for_selector) /\ PageOpen(tasks[t].page)) =>
            tasks[t].result.metadata.product_count = pages[tasks[t].page].matches

CapturesIsolatedWitness ==
  \E t, u \in Tasks :
    /\ t # u
    /\ tasks[t].pc = "finally" /\ tasks[t].result.success
    /\ tasks[u].pc = "finally" /\ tasks[u].result.success
    /\ tasks[t].req.url # tasks[u].req.url
    /\ PageOpen(tasks[t].page) /\ PageOpen(tasks[u].page)
    /\ tasks[t].result.image_base64 # tasks[u].result.image_base64

(* C10: while no initialize() is in progress, self.playwright is set    *)
(* exactly when self.browser is set.                                    *)
HandlesPaired ==
  (\A t \in Tasks : tasks[t].pc \notin {"init_start", "init_launch"}) =>
     ((playwright # 0) <=> (browser # 0))
====
